---- MODULE Spec2Model ----
(***************************************************************************)
(* multichecks (src/src/main.rs): a batch of commands is read from stdin,  *)
(* every command is spawned on the first polling round, polled on every    *)
(* later round, and the captured output of the failed ones is printed at   *)
(* the end.                                                                *)
(*                                                                         *)
(* Text is a sequence of one-character strings.  What is written to the    *)
(* Terminal since its last reset() is kept in `out` as a sequence of       *)
(* write events (one per print_summary / writeln! call).                   *)
(*                                                                         *)
(* Spec, FairSpec and SpecCalls follow the commands and keep what is sent  *)
(* to the Terminal as `out`.  SpecFrames is main with the Terminal struct  *)
(* and the terminal device followed as well; the tracked lengths grow with *)
(* every frame, so its loop is bounded by MaxLength.  SpecTerminal is the  *)
(* Terminal under any sequence of write_str and reset calls, and SpecPure  *)
(* applies the pure functions to inputs drawn by its initial state.        *)
(***************************************************************************)
EXTENDS Integers, Sequences, FiniteSets, TLC

VARIABLES
    commands,   \* Commands.commands: Seq of CommandDesc records
    tick,       \* Commands.tick (usize, wrapping)
    os,         \* per command: the operating system's view of its process
    pc,         \* position of the caller (main, or a harness calling Commands)
    out,        \* write events sent to the Terminal since its last reset()
    captured,   \* per command: the strings print_output read (its local `str`)
    calls,      \* the calls summarize_all made when it last ran, in order
    terminal,   \* the Terminal struct: next_write, written_lines_lengths
    tty,        \* the terminal device: cursor row, and the frame printed on it
    last_reset, \* what the last Terminal::reset() met, emitted and left
    eval        \* SpecPure, SpecTerminal: the call last made and its result

vars == <<commands, tick, os, pc, out, captured, calls, terminal, tty,
          last_reset, eval>>

\* the Terminal and the device behind it
tvars == <<terminal, tty, last_reset>>

-----------------------------------------------------------------------------
(* Bounds *)

\* at most this many lines are read from stdin
MaxCommands == 2
\* usize::MAX + 1, scaled down: Commands.tick is kept modulo UsizeModulus
UsizeModulus == 3

\* SpecPure: print_summary is applied to the ticks 0..MaxTick
MaxTick == 20
\* SpecPure: a line of output is made of at most this many tokens
MaxTokens == 3
\* SpecPure: the colors Other(-1) .. Other(MaxCode) are rendered
MaxCode == 33

\* SpecFrames: a frame is drawn while every tracked length is below MaxLength
MaxLength == 20

\* SpecTerminal: the Terminal tracks at most MaxRows rows, each of a length
\* of at most MaxTracked
MaxRows == 3
MaxTracked == 4

\* the lines stdin can deliver: empty, whitespace only, two tokens with
\* leading and repeated whitespace
InputLines == { <<>>, <<" ">>, <<" ", "a", " ", " ", "b">> }

\* exit codes a process can report
ExitCodes == {0, 1}

\* what a process can have written to one of its pipes
Captures == { <<>>, <<"x", "\n", "y", "\n">> }

-----------------------------------------------------------------------------
(* Text helpers *)

\* the escape character, 0x1b
ESC == "ESC"

IsWhitespace(ch) == ch \in {" ", "\t"}

IsDigit(ch) == ch \in {"0", "1", "2", "3", "4", "5", "6", "7", "8", "9"}

RECURSIVE Concat(_)
Concat(seqs) ==
    IF seqs = <<>> THEN <<>> ELSE Head(seqs) \o Concat(Tail(seqs))

\* str::split_whitespace: the maximal runs of non-whitespace characters
RECURSIVE SplitWs(_, _)
SplitWs(text, cur) ==
    IF text = <<>>
    THEN IF cur = <<>> THEN <<>> ELSE <<cur>>
    ELSE IF IsWhitespace(Head(text))
         THEN (IF cur = <<>> THEN <<>> ELSE <<cur>>) \o SplitWs(Tail(text), <<>>)
         ELSE SplitWs(Tail(text), Append(cur, Head(text)))

split_whitespace(text) == SplitWs(text, <<>>)

\* str::split("\n"): the segments between newlines; n newlines give n + 1
\* segments, the empty string gives one empty segment
RECURSIVE SplitNl(_, _)
SplitNl(text, cur) ==
    IF text = <<>>
    THEN <<cur>>
    ELSE IF Head(text) = "\n"
         THEN <<cur>> \o SplitNl(Tail(text), <<>>)
         ELSE SplitNl(Tail(text), Append(cur, Head(text)))

split_newline(text) == SplitNl(text, <<>>)

\* [String]::join(" ")
RECURSIVE join(_)
join(strs) ==
    IF strs = <<>> THEN <<>>
    ELSE IF Len(strs) = 1 THEN Head(strs)
    ELSE Head(strs) \o <<" ">> \o join(Tail(strs))

-----------------------------------------------------------------------------
(* Color *)

Normal == [name |-> "Normal"]
Gray   == [name |-> "Gray"]
Green  == [name |-> "Green"]
Yellow == [name |-> "Yellow"]
Red    == [name |-> "Red"]
Other(n) == [name |-> "Other", code |-> n]

\* i32::MAX
I32Max == 2147483647

DigitChars == <<"0", "1", "2", "3", "4", "5", "6", "7", "8", "9">>

DigitVal(ch) == (CHOOSE k \in 1..10 : DigitChars[k] = ch) - 1

\* i32::from_str on a string of digits: the value, or -1 for Err (overflow)
RECURSIVE ParseDigits(_, _)
ParseDigits(digits, acc) ==
    IF digits = <<>> THEN acc
    ELSE LET d == DigitVal(Head(digits)) IN
         IF acc > I32Max \div 10 \/ (acc = I32Max \div 10 /\ d > I32Max % 10)
         THEN -1
         ELSE ParseDigits(Tail(digits), acc * 10 + d)

\* mutant: the named codes are not told apart from the other codes
ColorOfCode_other(digits) ==
    LET c == ParseDigits(digits, 0) IN
    IF c >= 0 THEN Other(c) ELSE Normal

\* the match arms of find_all on the captured digits (group 1)
ColorOfCode(digits) ==
    IF digits = <<"0">> THEN Normal
    ELSE IF digits = <<"9", "0">> THEN Gray
    ELSE IF digits = <<"3", "2">> THEN Green
    ELSE IF digits = <<"3", "1">> THEN Red
    ELSE IF digits = <<"3", "3">> THEN Yellow
    ELSE LET c == ParseDigits(digits, 0) IN
         IF c >= 0 THEN Other(c) ELSE Normal

\* the longest run of digits at the start of text
RECURSIVE DigitRun(_)
DigitRun(text) ==
    IF text # <<>> /\ IsDigit(Head(text))
    THEN <<Head(text)>> \o DigitRun(Tail(text))
    ELSE <<>>

Drop(text, n) == SubSeq(text, n + 1, Len(text))

\* COLORS_REGEX "\x1b\[(\d+)m" matched at the start of text: the digits of
\* group 1, or <<>> when there is no match here
MatchAt(text) ==
    IF Len(text) >= 4 /\ text[1] = ESC /\ text[2] = "["
    THEN LET run == DigitRun(Drop(text, 2)) IN
         IF run # <<>> /\ Len(text) >= Len(run) + 3 /\ text[Len(run) + 3] = "m"
         THEN run
         ELSE <<>>
    ELSE <<>>

\* Color::find_all: the colors of all non-overlapping matches, left to right
RECURSIVE find_all(_)
find_all(text) ==
    IF text = <<>> THEN <<>>
    ELSE LET run == MatchAt(text) IN
         IF run # <<>>
         THEN <<ColorOfCode(run)>> \o find_all(Drop(text, Len(run) + 3))
         ELSE find_all(Tail(text))

\* decimal digits of a natural number
RECURSIVE NatDigits(_)
NatDigits(n) ==
    IF n < 10 THEN <<DigitChars[n + 1]>>
    ELSE NatDigits(n \div 10) \o <<DigitChars[(n % 10) + 1]>>

\* Display for i32
IntToText(n) == IF n < 0 THEN <<"-">> \o NatDigits(-n) ELSE NatDigits(n)

ColorCode(color) ==
    CASE color = Normal -> 0
      [] color = Gray -> 90
      [] color = Green -> 32
      [] color = Red -> 31
      [] color = Yellow -> 33
      [] OTHER -> color.code

\* impl Display for Color
render(color) == <<ESC, "[">> \o IntToText(ColorCode(color)) \o <<"m">>

-----------------------------------------------------------------------------
(* Terminal *)

\* Terminal::new
Terminal_new == [next_write |-> 0, written_lines_lengths |-> <<>>]

\* "\x1b[2K" and "\x1b[F", the two sequences reset() prints
EraseLine == <<ESC, "[", "2", "K">>
CursorUp == <<ESC, "[", "F">>

\* the bytes of one element of a text (str::len counts bytes): the stand-ins
\* for the frames of the dot wave, of the spinner and for the quote bar count
\* the UTF-8 bytes of the glyphs, a word kept as one element its letters
ByteLen(ch) ==
    CASE ch \in {".  ", " . ", "  ."} -> 4
      [] ch \in {"b0", "b1", "b2", "b3", "b4", "b5", "b6", "b7", "b8", "b9"} -> 3
      [] ch = "BAR" -> 3
      [] ch = "OK" -> 2
      [] ch = "FAILED" -> 6
      [] ch = "Error reading stdout" -> 20
      [] ch = "read failed" -> 11
      [] ch = " Failed to start process" -> 24
      [] OTHER -> 1

\* str::len
RECURSIVE StrLen(_)
StrLen(text) ==
    IF text = <<>> THEN 0 ELSE ByteLen(Head(text)) + StrLen(Tail(text))

\* str::split_inclusive("\n"): the segments, each ending with its newline;
\* the empty string gives no segment, no empty segment after a last newline
RECURSIVE SplitInclusive(_, _)
SplitInclusive(text, cur) ==
    IF text = <<>>
    THEN IF cur = <<>> THEN <<>> ELSE <<cur>>
    ELSE IF Head(text) = "\n"
         THEN <<Append(cur, "\n")>> \o SplitInclusive(Tail(text), <<>>)
         ELSE SplitInclusive(Tail(text), Append(cur, Head(text)))

split_inclusive(text) == SplitInclusive(text, <<>>)

ends_with_newline(line) == line # <<>> /\ line[Len(line)] = "\n"

\* mutant: reset() forgets the rows it has erased
Terminal_reset_clear(t) ==
    LET already_written == Len(t.written_lines_lengths) IN
    IF already_written = 0
    THEN [terminal |-> t, printed |-> <<>>]
    ELSE [terminal |-> [next_write |-> 0, written_lines_lengths |-> <<>>],
          printed |-> Concat([k \in 1..already_written |->
                                 <<EraseLine, CursorUp>>])]

\* Terminal::reset: the Terminal afterwards and what it printed
Terminal_reset(t) ==
    LET already_written == Len(t.written_lines_lengths) IN
    IF already_written = 0
    THEN [terminal |-> t, printed |-> <<>>]
    ELSE [terminal |-> [t EXCEPT !.next_write = 0],
          printed |-> Concat([k \in 1..already_written |->
                                 <<EraseLine, CursorUp>>])]

\* the while loop of write_str: push(0) until there is a row for next_write
RECURSIVE PushRows(_, _)
PushRows(lengths, next_write) ==
    IF Len(lengths) < next_write + 1
    THEN PushRows(Append(lengths, 0), next_write)
    ELSE lengths

\* mutant: no row is pushed for the write cursor
WriteLine_no_push(t, line) ==
    LET lengths == t.written_lines_lengths
        row == t.next_write + 1
    IN IF row > Len(lengths)
       THEN [ok |-> FALSE, terminal |-> t]
       ELSE IF ends_with_newline(line)
       THEN [ok |-> TRUE,
             terminal |-> [next_write |-> t.next_write + 1,
                           written_lines_lengths |->
                               [lengths EXCEPT ![row] = @ + StrLen(line) - 1]]]
       ELSE [ok |-> TRUE,
             terminal |-> [next_write |-> t.next_write,
                           written_lines_lengths |->
                               [lengths EXCEPT ![row] = @ + StrLen(line)]]]

\* the body of the for loop of write_str for one line, after print!: ok is
\* FALSE when get_mut(next_write) gives None and write_str returns Err(Error)
WriteLine(t, line) ==
    LET lengths == PushRows(t.written_lines_lengths, t.next_write)
        row == t.next_write + 1
    IN IF row > Len(lengths)
       THEN [ok |-> FALSE,
             terminal |-> [t EXCEPT !.written_lines_lengths = lengths]]
       ELSE IF ends_with_newline(line)
       THEN [ok |-> TRUE,
             terminal |-> [next_write |-> t.next_write + 1,
                           written_lines_lengths |->
                               [lengths EXCEPT ![row] = @ + StrLen(line) - 1]]]
       ELSE [ok |-> TRUE,
             terminal |-> [next_write |-> t.next_write,
                           written_lines_lengths |->
                               [lengths EXCEPT ![row] = @ + StrLen(line)]]]

\* the for loop of write_str over the lines left, left at the first failure
RECURSIVE WriteLines(_, _, _)
WriteLines(t, lines, printed) ==
    IF lines = <<>>
    THEN [ok |-> TRUE, terminal |-> t, printed |-> printed]
    ELSE LET w == WriteLine(t, Head(lines)) IN
         IF w.ok
         THEN WriteLines(w.terminal, Tail(lines), Append(printed, Head(lines)))
         ELSE [ok |-> FALSE, terminal |-> w.terminal,
               printed |-> Append(printed, Head(lines))]

\* Terminal::write_str: its result, the Terminal afterwards, what it printed
write_str(t, s) == WriteLines(t, split_inclusive(s), <<>>)

-----------------------------------------------------------------------------
(* The terminal device that stdout is connected to *)

\* cursor: the row of the cursor, 0 being the row the program started on;
\* top, rows, lines: the frame printed since reset() was last called, that
\* is the row it began on, the rows it printed text on and the number of
\* lines it ended; erased: the rows cleared when reset() was last called
NewTty == [cursor |-> 0, top |-> 0, rows |-> {}, lines |-> 0, erased |-> {}]

HasText(line) == \E k \in 1..Len(line) : line[k] # "\n"

\* the device receives one printed item: a control sequence of reset(), or
\* a line of text that may end with a newline
DevicePrint(d, item) ==
    CASE item = EraseLine -> [d EXCEPT !.erased = @ \cup {d.cursor}]
      [] item = CursorUp -> [d EXCEPT !.cursor = @ - 1]
      [] OTHER ->
           [d EXCEPT !.rows = IF HasText(item) THEN @ \cup {d.cursor} ELSE @,
                     !.cursor = IF ends_with_newline(item) THEN @ + 1 ELSE @,
                     !.lines = IF ends_with_newline(item) THEN @ + 1 ELSE @]

RECURSIVE DevicePrintAll(_, _)
DevicePrintAll(d, items) ==
    IF items = <<>> THEN d
    ELSE DevicePrintAll(DevicePrint(d, Head(items)), Tail(items))

\* no reset() was called yet
NoReset == [called |-> FALSE]

\* a call of reset() on Terminal t in front of device d: the Terminal and
\* the device afterwards, and the record of the call (the frame it met, what
\* it printed, the cursors it left)
ResetCall(t, d) ==
    LET r == Terminal_reset(t)
        e == DevicePrintAll([d EXCEPT !.erased = {}], r.printed)
    IN [terminal |-> r.terminal,
        tty |-> [e EXCEPT !.top = e.cursor, !.rows = {}, !.lines = 0],
        last_reset |-> [called |-> TRUE, frame |-> d, tracked |-> t,
                        printed |-> r.printed, erased |-> e.erased,
                        cursor |-> e.cursor,
                        next_write |-> r.terminal.next_write]]

\* a call of write_str(s): its result, the Terminal and the device afterwards
WriteCall(t, d, s) ==
    LET w == write_str(t, s) IN
    [ok |-> w.ok, terminal |-> w.terminal, tty |-> DevicePrintAll(d, w.printed)]

\* SpecPure has not applied a function
NoEval == [fn |-> "none", applied |-> FALSE]

-----------------------------------------------------------------------------
(* CommandStatus *)

Unstarted == [kind |-> "Unstarted"]
Running == [kind |-> "Running"]
Finished(code) == [kind |-> "Finished", code |-> code]
Error(msg) == [kind |-> "Error", msg |-> msg]

\* mutant: Running counted as terminal
is_terminal_state_running(status) ==
    CASE status.kind \in {"Unstarted"} -> FALSE
      [] status.kind \in {"Running", "Finished", "Error"} -> TRUE

is_terminal_state(status) ==
    CASE status.kind \in {"Unstarted", "Running"} -> FALSE
      [] status.kind \in {"Finished", "Error"} -> TRUE

is_error(status) ==
    IF \/ status.kind = "Unstarted"
       \/ status.kind = "Running"
       \/ status.kind = "Finished" /\ status.code = 0
    THEN FALSE
    ELSE TRUE

-----------------------------------------------------------------------------
(* CommandDesc *)

\* animation frames; ASCII stand-ins for the dot wave and the braille spinner
UNSTARTED_DOTS == <<".  ", " . ", "  .", " . ">>
RUNNING_DOTS == <<"b0", "b1", "b2", "b3", "b4", "b5", "b6", "b7", "b8", "b9">>

\* Option<Child>: None, or Some(child) with the child's stdout and stderr
\* fields (TRUE while the pipe is still Some in the child)
NoChild == [some |-> FALSE]
SomeChild(stdout, stderr) == [some |-> TRUE, stdout |-> stdout, stderr |-> stderr]

CommandDesc_new(command) ==
    [command_strs |-> command, command_spawn |-> NoChild, status |-> Unstarted]

\* what the operating system can answer to command.spawn()
SpawnResults == {"Ok", "Err"}

\* what child.try_wait() can answer for a process in state o
TryWaitResults(o) ==
    IF o = "exited"
    THEN {[r |-> "Exited", code |-> c] : c \in ExitCodes}
         \cup {[r |-> "ExitedNoCode"], [r |-> "Err"]}
    ELSE {[r |-> "StillRunning"], [r |-> "Err"]}

\* mutant: a failed spawn records the error and keeps the old handle
start_keeps_handle(self, o) ==
    IF self.command_strs = <<>>
    THEN {[self |-> self, os |-> o]}
    ELSE {IF r = "Ok"
          THEN [self |-> [self EXCEPT !.status = Running,
                                      !.command_spawn = SomeChild(TRUE, TRUE)],
                os |-> "alive"]
          ELSE [self |-> [self EXCEPT !.status = Error("spawn failed")],
                os |-> o]
          : r \in SpawnResults}

\* mutant: no early return for an empty argument vector, whose spawn fails
start_no_empty_check(self, o) ==
    {IF r = "Ok" /\ self.command_strs # <<>>
     THEN [self |-> [self EXCEPT !.status = Running,
                                 !.command_spawn = SomeChild(TRUE, TRUE)],
           os |-> "alive"]
     ELSE [self |-> [self EXCEPT !.status = Error("spawn failed"),
                                 !.command_spawn = NoChild],
           os |-> "none"]
     : r \in SpawnResults}

\* CommandDesc::start, for a supervisor whose process is in state o: the
\* possible results, each the supervisor and its process afterwards
start(self, o) ==
    IF self.command_strs = <<>>
    THEN {[self |-> self, os |-> o]}
    ELSE {IF r = "Ok"
          THEN [self |-> [self EXCEPT !.status = Running,
                                      !.command_spawn = SomeChild(TRUE, TRUE)],
                os |-> "alive"]
          ELSE [self |-> [self EXCEPT !.status = Error("spawn failed"),
                                      !.command_spawn = NoChild],
                os |-> "none"]
          : r \in SpawnResults}

\* mutant: a supervisor in a terminal state is polled as well
check_polls_terminal(self, o) ==
    IF ~self.command_spawn.some
    THEN {[self |-> self, os |-> o]}
    ELSE {[self |-> CASE w.r = "Exited" ->
                            [self EXCEPT !.status = Finished(w.code)]
                      [] w.r = "ExitedNoCode" ->
                            [self EXCEPT !.status = Error("Error reading status code")]
                      [] w.r = "StillRunning" -> self
                      [] w.r = "Err" ->
                            [self EXCEPT !.status = Error("poll failed")],
           os |-> o]
          : w \in TryWaitResults(o)}

\* CommandDesc::check
check(self, o) ==
    IF is_terminal_state(self.status)
    THEN {[self |-> self, os |-> o]}
    ELSE IF ~self.command_spawn.some
    THEN {[self |-> self, os |-> o]}
    ELSE {[self |-> CASE w.r = "Exited" ->
                            [self EXCEPT !.status = Finished(w.code)]
                      [] w.r = "ExitedNoCode" ->
                            [self EXCEPT !.status = Error("Error reading status code")]
                      [] w.r = "StillRunning" -> self
                      [] w.r = "Err" ->
                            [self EXCEPT !.status = Error("poll failed")],
           os |-> o]
          : w \in TryWaitResults(o)}

\* mutant: the spinner is indexed like the dot wave
print_summary_one_modulus(self, t) ==
    LET sc == CASE self.status.kind = "Unstarted" ->
                       <<UNSTARTED_DOTS[(t % Len(UNSTARTED_DOTS)) + 1], Gray>>
                [] self.status.kind = "Running" ->
                       <<RUNNING_DOTS[(t % Len(UNSTARTED_DOTS)) + 1], Normal>>
                [] self.status.kind = "Finished" /\ self.status.code = 0 ->
                       <<"OK", Green>>
                [] self.status.kind = "Finished" /\ self.status.code # 0 ->
                       <<"FAILED", Red>>
                [] self.status.kind = "Error" ->
                       <<"FAILED", Red>>
    IN [op |-> "summary", text |-> join(self.command_strs),
        color |-> sc[2], glyph |-> sc[1]]

\* CommandDesc::print_summary: the one write! it makes
print_summary(self, t) ==
    LET sc == CASE self.status.kind = "Unstarted" ->
                       <<UNSTARTED_DOTS[(t % Len(UNSTARTED_DOTS)) + 1], Gray>>
                [] self.status.kind = "Running" ->
                       <<RUNNING_DOTS[(t % Len(RUNNING_DOTS)) + 1], Normal>>
                [] self.status.kind = "Finished" /\ self.status.code = 0 ->
                       <<"OK", Green>>
                [] self.status.kind = "Finished" /\ self.status.code # 0 ->
                       <<"FAILED", Red>>
                [] self.status.kind = "Error" ->
                       <<"FAILED", Red>>
    IN [op |-> "summary", text |-> join(self.command_strs),
        color |-> sc[2], glyph |-> sc[1]]

\* writeln!(out)
Newline == [op |-> "newline"]

\* out.reset()
Reset == [op |-> "reset"]

\* what read_to_string can do on a pipe: read everything, or fail
ReadResults ==
    {[ok |-> TRUE, data |-> t] : t \in Captures}
    \cup {[ok |-> FALSE, data |-> <<>>]}

\* never read
NotRead == [read |-> FALSE]

\* mutant: no check that the string read is not empty
print_output_always(source, rd) ==
    IF ~source
    THEN [str |-> NotRead, events |-> <<>>]
    ELSE LET str == IF rd.ok
                    THEN rd.data
                    ELSE rd.data \o render(Red) \o <<"Error reading stdout">>
                         \o render(Normal) \o <<":", " ", "read failed">>
             lines == split_newline(str)
             quote(line) ==
                 LET colors == find_all(line)
                     quote_color == CASE Len(colors) = 0 -> Normal
                                      [] Len(colors) = 1 -> colors[1]
                                      [] OTHER -> Yellow
                 IN [op |-> "quote", color |-> quote_color,
                     reset |-> Normal, line |-> line]
         IN [str |-> [read |-> TRUE, str |-> str],
             events |-> [k \in 1..Len(lines) |-> quote(lines[k])]]

\* mutant: a line with several color codes is quoted in its first color
print_output_first_code(source, rd) ==
    IF ~source
    THEN [str |-> NotRead, events |-> <<>>]
    ELSE LET str == IF rd.ok
                    THEN rd.data
                    ELSE rd.data \o render(Red) \o <<"Error reading stdout">>
                         \o render(Normal) \o <<":", " ", "read failed">>
             lines == split_newline(str)
             quote(line) ==
                 LET colors == find_all(line)
                     quote_color == CASE Len(colors) = 0 -> Normal
                                      [] OTHER -> colors[1]
                 IN [op |-> "quote", color |-> quote_color,
                     reset |-> Normal, line |-> line]
         IN [str |-> [read |-> TRUE, str |-> str],
             events |-> IF str # <<>>
                        THEN [k \in 1..Len(lines) |-> quote(lines[k])]
                        ELSE <<>>]

\* CommandDesc::print_output for a source that is present (TRUE) or None,
\* and for what reading it gives: the local str and the lines written
print_output(source, rd) ==
    IF ~source
    THEN [str |-> NotRead, events |-> <<>>]
    ELSE LET str == IF rd.ok
                    THEN rd.data
                    ELSE rd.data \o render(Red) \o <<"Error reading stdout">>
                         \o render(Normal) \o <<":", " ", "read failed">>
             last_color == Normal
             lines == split_newline(str)
             quote(line) ==
                 LET colors == find_all(line)
                     quote_color == CASE Len(colors) = 0 -> Normal
                                      [] Len(colors) = 1 -> colors[1]
                                      [] OTHER -> Yellow
                 IN [op |-> "quote", color |-> quote_color,
                     reset |-> last_color, line |-> line]
         IN [str |-> [read |-> TRUE, str |-> str],
             events |-> IF str # <<>>
                        THEN [k \in 1..Len(lines) |-> quote(lines[k])]
                        ELSE <<>>]

\* writeln!(out, "{}!{} Failed to start process", Color::Red, Color::Normal)
FailedToStart == [op |-> "failed_to_start", color |-> Red, reset |-> Normal]

\* CommandDesc::print_details, with what reading stdout and stderr gives
CommandDesc_print_details(self, rds) ==
    IF ~is_error(self.status)
    THEN [self |-> self, events |-> <<>>, captured |-> <<NotRead, NotRead>>]
    ELSE IF ~self.command_spawn.some
    THEN [self |-> self, events |-> <<FailedToStart>>,
          captured |-> <<NotRead, NotRead>>]
    ELSE LET o1 == print_output(self.command_spawn.stdout, rds[1])
             o2 == print_output(self.command_spawn.stderr, rds[2])
         IN [self |-> [self EXCEPT !.command_spawn = SomeChild(FALSE, FALSE)],
             events |-> o1.events \o o2.events,
             captured |-> <<o1.str, o2.str>>]

-----------------------------------------------------------------------------
(* Commands *)

\* Commands::add_command
add_command(cmds, text) == Append(cmds, CommandDesc_new(split_whitespace(text)))

\* mutant: one command in a terminal state is enough
all_done_any(cmds) == \E i \in 1..Len(cmds) : is_terminal_state(cmds[i].status)

\* Commands::all_done
all_done(cmds) == \A i \in 1..Len(cmds) : is_terminal_state(cmds[i].status)

\* all ways to pick one element from each set of a sequence of sets
RECURSIVE Product(_)
Product(sets) ==
    IF sets = <<>> THEN {<<>>}
    ELSE {<<h>> \o t : h \in Head(sets), t \in Product(Tail(sets))}

\* mutant: check is picked on every tick
Action_always_check(t) == "check"

\* the function pointer summarize_all picks from the tick
Action(t) == IF t > 0 THEN "check" ELSE "start"

Apply(action, self, o) == IF action = "check" THEN check(self, o) ELSE start(self, o)

\* the results in which nothing changes after the first command that ends
\* in Error
RECURSIVE AbortAfterError(_, _, _, _)
AbortAfterError(res, cmds, osv, failed) ==
    IF res = <<>> THEN <<>>
    ELSE LET r == IF failed THEN [self |-> Head(cmds), os |-> Head(osv)]
                  ELSE Head(res)
             f == failed \/ (r.self.status.kind = "Error"
                             /\ r.self.status # Head(cmds).status)
         IN <<r>> \o AbortAfterError(Tail(res), Tail(cmds), Tail(osv), f)

\* mutant: the loop stops at the first command whose start or check fails
ApplyAllAbort(cmds, osv, t) ==
    {AbortAfterError(res, cmds, osv, FALSE) :
        res \in Product([i \in 1..Len(cmds) |-> Apply(Action(t), cmds[i], osv[i])])}

\* the first loop of summarize_all: action(command) for every command, in
\* order; the possible results, each a sequence of [self, os]
ApplyAll(cmds, osv, t) ==
    Product([i \in 1..Len(cmds) |-> Apply(Action(t), cmds[i], osv[i])])

\* mutant: no newline after the summary of the last command
Summaries_no_last_newline(cmds, t) ==
    LET last_commands_idx == Len(cmds) - 1 IN
    Concat([k \in 1..Len(cmds) |->
              <<print_summary(cmds[k], t)>>
              \o (IF (k - 1) # last_commands_idx THEN <<Newline>> ELSE <<>>)])

\* the second loop of summarize_all: a summary and a newline per command
\* (i runs over 0..len-1 and is compared with len)
Summaries(cmds, t) ==
    LET last_commands_idx == Len(cmds) IN
    Concat([k \in 1..Len(cmds) |->
              <<print_summary(cmds[k], t)>>
              \o (IF (k - 1) # last_commands_idx THEN <<Newline>> ELSE <<>>)])

wrapping_add(t, n) == (t + n) % UsizeModulus

\* the calls summarize_all makes, in the order it makes them
CallsOf(cmds, t) ==
    <<[fn |-> "reset"]>>
    \o [k \in 1..Len(cmds) |-> [fn |-> Action(t), command |-> k]]
    \o Concat([k \in 1..Len(cmds) |->
                  <<[fn |-> "print_summary", command |-> k, tick |-> t]>>
                  \o (IF (k - 1) # Len(cmds) THEN <<[fn |-> "writeln"]>> ELSE <<>>)])
    \o <<[fn |-> "wrapping_add", tick |-> t]>>

NoCaptures(cmds) == [i \in 1..Len(cmds) |-> <<NotRead, NotRead>>]

\* Commands::summarize_all (tick_once)
summarize_all ==
    \E res \in ApplyAll(commands, os, tick) :
        /\ commands' = [i \in 1..Len(commands) |-> res[i].self]
        /\ os' = [i \in 1..Len(commands) |-> res[i].os]
        /\ out' = <<Reset>> \o Summaries(commands', tick)
        /\ tick' = wrapping_add(tick, 1)
        /\ captured' = NoCaptures(commands)
        /\ calls' = CallsOf(commands, tick)

\* mutant: the summary is rendered for the current tick
DetailsOfTick(self, rds) ==
    [CommandDesc_print_details(self, rds) EXCEPT
        !.events = <<print_summary(self, tick), Newline>> \o @]

\* the body of the loop of Commands::print_details for one command
DetailsOf(self, rds) ==
    LET d == CommandDesc_print_details(self, rds) IN
    [d EXCEPT !.events = <<print_summary(self, 0), Newline>> \o d.events]

\* a read result for a pipe that is not read
NoRead == [ok |-> TRUE, data |-> <<>>]

\* the read results print_details can meet for one command, when reading a
\* pipe gives one of results: one per pipe it reads (the status is a failure,
\* there is a child, the pipe is there)
ReadsOf(self, results) ==
    LET reads(stream) ==
            IF is_error(self.status) /\ self.command_spawn.some /\ stream
            THEN results
            ELSE {NoRead}
    IN IF self.command_spawn.some
       THEN reads(self.command_spawn.stdout) \X reads(self.command_spawn.stderr)
       ELSE {<<NoRead, NoRead>>}

\* the loop of Commands::print_details, with the read results of each command
DetailsAll(cmds, rds) == [i \in 1..Len(cmds) |-> DetailsOf(cmds[i], rds[i])]

\* Commands::print_details, when reading a pipe gives one of results
print_details(results) ==
    \E rds \in Product([i \in 1..Len(commands) |-> ReadsOf(commands[i], results)]) :
        /\ commands' = [i \in 1..Len(commands) |-> DetailsAll(commands, rds)[i].self]
        /\ out' = <<Reset>> \o Concat([i \in 1..Len(commands) |->
                                          DetailsAll(commands, rds)[i].events])
        /\ captured' = [i \in 1..Len(commands) |->
                           DetailsAll(commands, rds)[i].captured]
        /\ UNCHANGED <<tick, os, calls>>

-----------------------------------------------------------------------------
(* main *)

Init ==
    /\ commands = <<>>
    /\ tick = 0
    /\ os = <<>>
    /\ pc = "read"
    /\ out = <<>>
    /\ captured = <<>>
    /\ calls = <<>>
    /\ terminal = Terminal_new
    /\ tty = NewTty
    /\ last_reset = NoReset
    /\ eval = NoEval

\* main: one line of stdin is read and added
MainRead ==
    /\ pc = "read"
    /\ Len(commands) < MaxCommands
    /\ \E line \in InputLines : commands' = add_command(commands, line)
    /\ os' = Append(os, "none")
    /\ captured' = Append(captured, <<NotRead, NotRead>>)
    /\ UNCHANGED <<tick, pc, out, calls, tvars, eval>>

\* main: stdin is at its end
MainEof ==
    /\ pc = "read"
    /\ pc' = "loop"
    /\ UNCHANGED <<commands, tick, os, out, captured, calls, tvars, eval>>

\* main: commands.summarize_all(&mut terminal)
MainSummarize ==
    /\ pc = "loop"
    /\ summarize_all
    /\ pc' = "sleep"
    /\ UNCHANGED <<tvars, eval>>

\* mutant: the loop is left when all_done() is false
MainSleepInverted ==
    /\ pc = "sleep"
    /\ pc' = IF ~all_done(commands) THEN "details" ELSE "loop"
    /\ UNCHANGED <<commands, tick, os, out, captured, calls, tvars, eval>>

\* main: sleep, then leave the loop when commands.all_done()
MainSleep ==
    /\ pc = "sleep"
    /\ pc' = IF all_done(commands) THEN "details" ELSE "loop"
    /\ UNCHANGED <<commands, tick, os, out, captured, calls, tvars, eval>>

\* main: commands.print_details(&mut terminal), then return
MainPrintDetails ==
    /\ pc = "details"
    /\ print_details(ReadResults)
    /\ pc' = "exit"
    /\ UNCHANGED <<tvars, eval>>

\* the process spawned for command i exits on its own
ProcessExit(i) ==
    /\ i \in 1..Len(os)
    /\ os[i] = "alive"
    /\ os' = [os EXCEPT ![i] = "exited"]
    /\ UNCHANGED <<commands, tick, pc, out, captured, calls, tvars, eval>>

Next ==
    \/ MainRead
    \/ MainEof
    \/ MainSummarize
    \/ MainSleep
    \/ MainPrintDetails
    \/ \E i \in 1..MaxCommands : ProcessExit(i)

Spec == Init /\ [][Next]_vars

\* the steps of MainPrintDetails, which can be taken whenever pc = "details"
\* (print_details has a result for every command and every read result)
MainPrintDetailsStep == pc = "details" /\ pc' = "exit"

\* main with its loop scheduled, stdin ending, and every spawned process
\* exiting on its own
Fairness ==
    /\ WF_vars(MainEof)
    /\ WF_vars(MainSummarize)
    /\ WF_vars(MainSleep)
    /\ WF_pc(MainPrintDetailsStep)
    /\ \A i \in 1..MaxCommands : WF_vars(ProcessExit(i))

FairSpec == Init /\ [][Next]_vars /\ Fairness

-----------------------------------------------------------------------------
(* Commands driven by an arbitrary caller: after the commands are added,   *)
(* summarize_all and print_details are called in any order, any number of  *)
(* times.                                                                  *)

CallerPcs == {"idle", "after_summarize_all", "after_print_details"}

CallsEof ==
    /\ pc = "read"
    /\ pc' = "idle"
    /\ UNCHANGED <<commands, tick, os, out, captured, calls, tvars, eval>>

CallSummarize ==
    /\ pc \in CallerPcs
    /\ summarize_all
    /\ pc' = "after_summarize_all"
    /\ UNCHANGED <<tvars, eval>>

\* the caller's processes wrote nothing or two lines to a pipe, and reading
\* a pipe does not fail
CallerReadResults ==
    {[ok |-> TRUE, data |-> t] : t \in Captures}

CallPrintDetails ==
    /\ pc \in CallerPcs
    /\ print_details(CallerReadResults)
    /\ pc' = "after_print_details"
    /\ UNCHANGED <<tvars, eval>>

NextCalls ==
    \/ MainRead
    \/ CallsEof
    \/ CallSummarize
    \/ CallPrintDetails
    \/ \E i \in 1..MaxCommands : ProcessExit(i)

SpecCalls == Init /\ [][NextCalls]_vars

-----------------------------------------------------------------------------
(* main with the Terminal and the terminal device followed *)

\* the text a write event passes to the Terminal: the format strings of
\* print_summary, writeln!(out), print_output and print_details
TextOf(ev) ==
    CASE ev.op = "summary" ->
           ev.text \o <<":", " ">> \o render(ev.color) \o <<ev.glyph>>
           \o <<ESC, "[", "0", "m">>
      [] ev.op = "newline" -> <<"\n">>
      [] ev.op = "quote" ->
           render(ev.color) \o <<"BAR">> \o render(ev.reset) \o <<" ">>
           \o ev.line \o <<"\n">>
      [] ev.op = "failed_to_start" ->
           render(ev.color) \o <<"!">> \o render(ev.reset)
           \o <<" Failed to start process">> \o <<"\n">>

\* the write events written one after the other; the result of each write
\* is dropped (`_ =`), Ok(()) and Err(Error) alike
RECURSIVE WriteEvents(_, _, _)
WriteEvents(t, d, events) ==
    IF events = <<>> THEN [terminal |-> t, tty |-> d]
    ELSE LET w == WriteCall(t, d, TextOf(Head(events))) IN
         IF w.ok
         THEN WriteEvents(w.terminal, w.tty, Tail(events))
         ELSE WriteEvents(w.terminal, w.tty, Tail(events))

\* out.reset() followed by the write events of a frame
Frame(t, d, events) ==
    LET r == ResetCall(t, d)
        w == WriteEvents(r.terminal, r.tty, events)
    IN [terminal |-> w.terminal, tty |-> w.tty, last_reset |-> r.last_reset]

\* main: commands.summarize_all(&mut terminal)
FrameSummarize ==
    /\ pc = "loop"
    /\ \A k \in 1..Len(terminal.written_lines_lengths) :
          terminal.written_lines_lengths[k] < MaxLength
    /\ summarize_all
    /\ pc' = "sleep"
    /\ LET f == Frame(terminal, tty, Tail(out')) IN
       /\ terminal' = f.terminal
       /\ tty' = f.tty
       /\ last_reset' = f.last_reset
    /\ UNCHANGED eval

\* main: commands.print_details(&mut terminal), then return; the processes
\* wrote nothing or two lines to a pipe and reading a pipe does not fail
FramePrintDetails ==
    /\ pc = "details"
    /\ print_details(CallerReadResults)
    /\ pc' = "exit"
    /\ LET f == Frame(terminal, tty, Tail(out')) IN
       /\ terminal' = f.terminal
       /\ tty' = f.tty
       /\ last_reset' = f.last_reset
    /\ UNCHANGED eval

NextFrames ==
    \/ MainRead
    \/ MainEof
    \/ FrameSummarize
    \/ MainSleep
    \/ FramePrintDetails
    \/ \E i \in 1..MaxCommands : ProcessExit(i)

SpecFrames == Init /\ [][NextFrames]_vars

-----------------------------------------------------------------------------
(* The Terminal under any sequence of write_str and reset calls *)

\* the texts written: empty, without newline, a newline, a line, a line
\* and the start of the next, two newlines
WriteTexts ==
    { <<>>, <<"a">>, <<"\n">>, <<"a", "b", "\n">>, <<"a", "\n", "b">>,
      <<"\n", "\n">> }

InitTerminal ==
    /\ commands = <<>>
    /\ tick = 0
    /\ os = <<>>
    /\ pc = "terminal"
    /\ out = <<>>
    /\ captured = <<>>
    /\ calls = <<>>
    /\ terminal = Terminal_new
    /\ tty = NewTty
    /\ last_reset = NoReset
    /\ eval = NoEval

\* terminal.write_str(s); the device is not followed here, what is printed
\* is kept with the result of the call
TermWrite ==
    /\ pc = "terminal"
    /\ \E s \in WriteTexts :
          LET w == write_str(terminal, s) IN
          /\ Len(w.terminal.written_lines_lengths) <= MaxRows
          /\ \A k \in 1..Len(w.terminal.written_lines_lengths) :
                w.terminal.written_lines_lengths[k] <= MaxTracked
          /\ terminal' = w.terminal
          /\ eval' = [fn |-> "write_str", applied |-> TRUE, arg |-> s,
                      ret |-> [ok |-> w.ok, printed |-> w.printed]]
    /\ UNCHANGED <<commands, tick, os, pc, out, captured, calls, tty,
                   last_reset>>

\* terminal.reset()
TermReset ==
    /\ pc = "terminal"
    /\ LET r == Terminal_reset(terminal) IN
       /\ terminal' = r.terminal
       /\ eval' = [fn |-> "reset", applied |-> TRUE, arg |-> <<>>,
                   ret |-> [ok |-> TRUE, printed |-> r.printed]]
    /\ UNCHANGED <<commands, tick, os, pc, out, captured, calls, tty,
                   last_reset>>

NextTerminal ==
    \/ TermWrite
    \/ TermReset

SpecTerminal == InitTerminal /\ [][NextTerminal]_vars

-----------------------------------------------------------------------------
(* The pure functions, applied to inputs drawn by the initial state *)

\* exit codes a supervisor can hold
PureCodes == ExitCodes \cup {255}

\* the supervisors print_summary is applied to: never started, running or
\* ended with a child, failed to spawn
PureDescs ==
    {CommandDesc_new(split_whitespace(line)) : line \in InputLines}
    \cup {[command_strs |-> <<<<"a">>, <<"b">>>>,
           command_spawn |-> SomeChild(TRUE, TRUE), status |-> st] :
             st \in {Running, Error("Error reading status code"),
                     Error("poll failed")}
                    \cup {Finished(c) : c \in PureCodes}}
    \cup {[command_strs |-> <<<<"a">>, <<"b">>>>,
           command_spawn |-> NoChild, status |-> Error("spawn failed")]}

\* the pieces a line of output is made of, each with the color codes it
\* holds: plain text, three color codes, an escape sequence without digits,
\* digits without the escape character, a newline
LineTokens ==
    {[text |-> <<"x">>, codes |-> <<>>],
     [text |-> render(Red), codes |-> <<Red>>],
     [text |-> render(Normal), codes |-> <<Normal>>],
     [text |-> render(Other(7)), codes |-> <<Other(7)>>],
     [text |-> <<ESC, "[", "m">>, codes |-> <<>>],
     [text |-> <<"[", "3", "1", "m">>, codes |-> <<>>],
     [text |-> <<"\n">>, codes |-> <<>>]}

\* the sequences of at most n tokens
RECURSIVE TokenSeqs(_)
TokenSeqs(n) ==
    IF n = 0 THEN {<<>>}
    ELSE TokenSeqs(n - 1)
         \cup {Append(ts, tk) : ts \in TokenSeqs(n - 1), tk \in LineTokens}

TextOfTokens(ts) == Concat([k \in 1..Len(ts) |-> ts[k].text])

\* the colors that are rendered and parsed back
PureColors ==
    {Normal, Gray, Green, Red, Yellow}
    \cup {Other(n) : n \in (-1..MaxCode) \cup {90, I32Max}}

\* the arguments of print_summary
SummaryInputs ==
    {[fn |-> "print_summary", applied |-> FALSE,
      arg |-> [self |-> d, tick |-> t], ret |-> <<>>] :
        d \in PureDescs, t \in 0..MaxTick}

\* the texts given to print_output (as the content of the pipe) and to
\* find_all
TextInputs ==
    {[fn |-> f, applied |-> FALSE, arg |-> ts, ret |-> <<>>] :
        f \in {"print_output", "find_all"}, ts \in TokenSeqs(MaxTokens)}

\* the colors given to render
ColorInputs ==
    {[fn |-> "render", applied |-> FALSE, arg |-> c, ret |-> <<>>] :
        c \in PureColors}

InitPure ==
    /\ commands = <<>>
    /\ tick = 0
    /\ os = <<>>
    /\ pc = "pure"
    /\ out = <<>>
    /\ captured = <<>>
    /\ calls = <<>>
    /\ terminal = Terminal_new
    /\ tty = NewTty
    /\ last_reset = NoReset
    /\ \/ eval \in SummaryInputs
       \/ eval \in TextInputs
       \/ eval \in ColorInputs

\* not applied yet, and nothing but eval changes
PureCall(fn) ==
    /\ pc = "pure"
    /\ eval.fn = fn
    /\ ~eval.applied
    /\ UNCHANGED <<commands, tick, os, pc, out, captured, calls, tvars>>

\* self.print_summary(tick, out)
PurePrintSummary ==
    /\ PureCall("print_summary")
    /\ eval' = [eval EXCEPT !.applied = TRUE,
                            !.ret = print_summary(eval.arg.self, eval.arg.tick)]

\* print_output on a pipe that holds the text of the tokens: the lines it
\* writes
PurePrintOutput ==
    /\ PureCall("print_output")
    /\ eval' = [eval EXCEPT
                  !.applied = TRUE,
                  !.ret = print_output(TRUE, [ok |-> TRUE,
                                              data |-> TextOfTokens(eval.arg)]).events]

\* Color::find_all(text)
PureFindAll ==
    /\ PureCall("find_all")
    /\ eval' = [eval EXCEPT !.applied = TRUE,
                            !.ret = find_all(TextOfTokens(eval.arg))]

\* Color::find_all(&color.to_string())
PureRender ==
    /\ PureCall("render")
    /\ eval' = [eval EXCEPT !.applied = TRUE,
                            !.ret = find_all(render(eval.arg))]

NextPure ==
    \/ PurePrintSummary
    \/ PurePrintOutput
    \/ PureFindAll
    \/ PureRender

SpecPure == InitPure /\ [][NextPure]_vars

-----------------------------------------------------------------------------
(* Properties *)

Status(i) == commands[i].status

IsTerminal(st) == st.kind \in {"Finished", "Error"}

\* the moves of a status that the lifecycle allows
AllowedMove(a, b) ==
    \/ a = b
    \/ a.kind = "Unstarted" /\ b.kind \in {"Running", "Error"}
    \/ a.kind = "Running" /\ b.kind \in {"Finished", "Error"}

\* C1: the status of a supervisor only moves Unstarted -> Running ->
\* {Finished, Error} or Unstarted -> Error, and never leaves Finished or Error,
\* whatever start() and check() calls the polling rounds of main issue.
C1_MonotonicStatus ==
    [][\A i \in 1..Len(commands) :
          AllowedMove(commands[i].status, commands'[i].status)]_vars

\* C2: once all_done() is true, a further tick_once (summarize_all) call
\* leaves the status of every supervisor unchanged, also the call made when
\* the tick counter has wrapped to 0.
C2_IdempotentOnceDone ==
    [][(all_done(commands) /\ pc' = "after_summarize_all")
          => \A i \in 1..Len(commands) : commands'[i].status = commands[i].status]_vars

\* a pipe of command i has been taken out of its child and read
Drained(i) ==
    \/ commands[i].command_spawn.some
       /\ (~commands[i].command_spawn.stdout \/ ~commands[i].command_spawn.stderr)
    \/ captured[i][1].read
    \/ captured[i][2].read

\* C3: in main, print_details runs only after all_done() was true, runs
\* once, and no summarize_all runs after it; so the pipes of a supervisor
\* are read only when its status is Finished or Error, never while Running.
C3_DetailsAfterAllDone ==
    /\ [](pc \in {"details", "exit"}
            => \A i \in 1..Len(commands) : IsTerminal(Status(i)))
    /\ [](\A i \in 1..Len(commands) :
            Drained(i) => (pc = "exit" /\ IsTerminal(Status(i))))
    /\ [][/\ pc' = "exit" => pc \in {"details", "exit"}
          /\ pc = "details" => pc' \in {"details", "exit"}
          /\ pc = "exit" => UNCHANGED <<commands, tick, out, captured, pc>>]_vars

\* main has returned after draining both pipes of a failed command, with
\* two supervisors
C3_Witness ==
    /\ pc = "exit"
    /\ Len(commands) = 2
    /\ \E i \in 1..Len(commands) :
          /\ Status(i) = Finished(1)
          /\ captured[i][1].read /\ captured[i][2].read
          /\ ~commands[i].command_spawn.stdout

AllNonEmpty == \A i \in 1..Len(commands) : commands[i].command_strs # <<>>

\* C4: when every supervisor has a non-empty argument vector and every
\* spawned process eventually exits, main eventually leaves its loop with
\* every supervisor Finished or Error and runs the detail pass.
C4_EventuallyDetails ==
    (pc = "loop" /\ AllNonEmpty)
        ~> (pc = "exit" /\ \A i \in 1..Len(commands) : IsTerminal(Status(i)))

\* C5: all_done() is true exactly when every supervisor is Finished or
\* Error: false with one Unstarted or Running, true for no supervisors.
C5_AllDoneIffTerminal ==
    /\ all_done(commands)
          <=> (\A i \in 1..Len(commands) : Status(i).kind \in {"Finished", "Error"})
    /\ (\E i \in 1..Len(commands) : Status(i).kind \in {"Unstarted", "Running"})
          => ~all_done(commands)
    /\ Len(commands) = 0 => all_done(commands)
    /\ pc = "details" => all_done(commands)

\* main found all_done() true with one supervisor Finished and one Error
C5_Witness ==
    /\ pc = "details"
    /\ Len(commands) = 2
    /\ Status(1).kind = "Finished"
    /\ Status(2).kind = "Error"
    /\ all_done(commands)

HasHandle(i) == commands[i].command_spawn.some

\* C6: a supervisor holds a process handle exactly when its last start()
\* spawned: Unstarted has none, Running and Finished have one, and a failed
\* spawn leaves Error without one (an Error found by check() keeps it).
C6_HandleIffSpawned ==
    \A i \in 1..Len(commands) :
        /\ Status(i).kind = "Unstarted" => ~HasHandle(i)
        /\ Status(i).kind \in {"Running", "Finished"} => HasHandle(i)
        /\ Status(i) = Error("spawn failed") => ~HasHandle(i)
        /\ HasHandle(i) <=> /\ Status(i).kind # "Unstarted"
                            /\ Status(i) # Error("spawn failed")

\* a first round in which one supervisor failed to spawn and holds no
\* handle while the other one spawned and holds one
C6_Witness ==
    /\ Len(commands) = 2
    /\ pc = "sleep"
    /\ Status(1) = Error("spawn failed") /\ ~HasHandle(1)
    /\ Status(2) = Running /\ HasHandle(2)
    /\ tick = 1
    /\ os[2] = "alive"

\* a polling round of main
Round == pc = "loop" /\ pc' = "sleep"

\* C7: a spawn or poll failure stays with its supervisor and does not abort
\* the round: in every round each supervisor gets start() (first round) or
\* check() (later rounds) applied to its own state whatever happened to the
\* others, every summary is rendered, and the tick counter is incremented.
C7_ErrorsAreLocal ==
    [][Round =>
        /\ tick' = (tick + 1) % UsizeModulus
        /\ Len(out') = 1 + 2 * Len(commands)
        /\ out'[1] = Reset
        /\ \A j \in 1..Len(commands) :
            /\ out'[2 * j] = print_summary(commands'[j], tick)
            /\ out'[2 * j + 1] = Newline
            /\ commands'[j].command_strs = commands[j].command_strs
            /\ tick = 0 /\ commands[j].command_strs = <<>>
                  => commands'[j] = commands[j]
            /\ tick = 0 /\ commands[j].command_strs # <<>>
                  => \/ /\ commands'[j].status = Running
                        /\ commands'[j].command_spawn = SomeChild(TRUE, TRUE)
                     \/ /\ commands'[j].status = Error("spawn failed")
                        /\ commands'[j].command_spawn = NoChild
            /\ tick > 0 /\ commands[j].status.kind # "Running"
                  => commands'[j] = commands[j]
            /\ tick > 0 /\ commands[j].status.kind = "Running"
                  => /\ commands'[j].command_spawn = commands[j].command_spawn
                     /\ IF os[j] = "exited"
                        THEN IsTerminal(commands'[j].status)
                        ELSE commands'[j].status \in {Running, Error("poll failed")}
       ]_vars

\* a round in which polling the first supervisor failed and the second one,
\* polled after it, was found to have exited
C7_Witness ==
    /\ pc = "sleep"
    /\ Len(commands) = 2
    /\ Status(1) = Error("poll failed")
    /\ Status(2) = Finished(0)
    /\ tick = 2
    /\ Len(out) = 5
    /\ out[2].glyph = "FAILED"
    /\ out[4].glyph = "OK"

\* the events of a frame after its reset, cut into one block per summary:
\* a summary and every event up to the next summary
RECURSIVE Blocks(_)
Blocks(ev) ==
    IF ev = <<>> THEN <<>>
    ELSE LET cut == CHOOSE k \in 2..(Len(ev) + 1) :
                        /\ k = Len(ev) + 1 \/ ev[k].op = "summary"
                        /\ \A j \in 2..(k - 1) : ev[j].op # "summary"
         IN <<SubSeq(ev, 1, cut - 1)>> \o Blocks(SubSeq(ev, cut, Len(ev)))

\* the blocks of the frame in out
OutBlocks == IF out = <<>> THEN <<>> ELSE Blocks(Tail(out))

\* the detail block of command i in a frame written by print_details: what
\* follows its summary and the newline
DetailBlock(i) == SubSeq(OutBlocks[i], 3, Len(OutBlocks[i]))

IsBlank(line) == \A k \in 1..Len(line) : IsWhitespace(line[k])

\* C8: a supervisor made from an empty or whitespace-only line has an empty
\* argument vector, stays Unstarted without a handle whatever is called, and
\* a print_details pass prints its summary and no detail line for it.
C8_EmptyCommandInert ==
    /\ \A line \in InputLines : IsBlank(line) <=> split_whitespace(line) = <<>>
    /\ \A i \in 1..Len(commands) :
          commands[i].command_strs = <<>> =>
            /\ Status(i) = Unstarted
            /\ ~HasHandle(i)
            /\ pc = "after_print_details" =>
                  /\ Len(OutBlocks) = Len(commands)
                  /\ OutBlocks[i][1].op = "summary"
                  /\ OutBlocks[i][1].glyph = UNSTARTED_DOTS[1]
                  /\ OutBlocks[i][1].color = Gray
                  /\ OutBlocks[i][2] = Newline
                  /\ DetailBlock(i) = <<>>

\* print_details ran when the counter had wrapped to 0 (start() was called
\* again on every supervisor), with a supervisor made from a blank line
\* before one whose spawn failed
C8_Witness ==
    /\ pc = "after_print_details"
    /\ Len(commands) = 2
    /\ commands[1].command_strs = <<>>
    /\ Status(1) = Unstarted
    /\ Status(2) = Error("spawn failed")
    /\ tick = 0
    /\ out = <<Reset, print_summary(commands[1], 0), Newline,
               print_summary(commands[2], 0), Newline, FailedToStart>>

IsFailure(st) == st.kind = "Error" \/ (st.kind = "Finished" /\ st.code # 0)

\* C9: print_details resets the renderer first, then writes for each
\* supervisor in insertion order its summary for tick 0, a newline, and right
\* after it its detail block; a detail block is written only for Error and
\* for Finished with a non-zero code, never for Finished(0), Unstarted, Running.
C9_DetailsFrame ==
    pc \in {"after_print_details", "exit"} =>
        /\ out # <<>> /\ out[1] = Reset
        /\ \A k \in 2..Len(out) : out[k] # Reset
        /\ Len(OutBlocks) = Len(commands)
        /\ \A i \in 1..Len(commands) :
              /\ OutBlocks[i][1].op = "summary"
              /\ OutBlocks[i][1].text = join(commands[i].command_strs)
              /\ OutBlocks[i][1].glyph =
                    CASE Status(i).kind = "Unstarted" -> UNSTARTED_DOTS[1]
                      [] Status(i).kind = "Running" -> RUNNING_DOTS[1]
                      [] Status(i) = Finished(0) -> "OK"
                      [] OTHER -> "FAILED"
              /\ Len(OutBlocks[i]) >= 2 /\ OutBlocks[i][2] = Newline
              /\ \A k \in 1..Len(DetailBlock(i)) :
                    DetailBlock(i)[k].op \in {"quote", "failed_to_start"}
              /\ DetailBlock(i) # <<>> => IsFailure(Status(i))
              /\ (Status(i).kind \in {"Unstarted", "Running"} \/ Status(i) = Finished(0))
                    => DetailBlock(i) = <<>>

\* print_details ran at a tick other than 0 over a Running supervisor and,
\* after it, one that exited with code 1 and had written to a pipe
C9_Witness ==
    /\ pc = "after_print_details"
    /\ tick = 2
    /\ Len(commands) = 2
    /\ Status(1) = Running
    /\ Status(2) = Finished(1)
    /\ Len(OutBlocks) = 2
    /\ OutBlocks[1] = <<print_summary(commands[1], 0), Newline>>
    /\ Len(DetailBlock(2)) > 0

\* text lines joined by newlines
RECURSIVE JoinNl(_)
JoinNl(lines) ==
    IF Len(lines) = 1 THEN lines[1]
    ELSE lines[1] \o <<"\n">> \o JoinNl(Tail(lines))

\* events are the quoted lines of the string str that was read from a pipe:
\* nothing for an empty string, otherwise one quote event per segment
\* between newlines, in order
QuotesOf(events, str) ==
    IF str = <<>>
    THEN events = <<>>
    ELSE /\ Len(events) = Cardinality({k \in 1..Len(str) : str[k] = "\n"}) + 1
         /\ \A k \in 1..Len(events) :
               /\ events[k].op = "quote"
               /\ \A j \in 1..Len(events[k].line) : events[k].line[j] # "\n"
         /\ JoinNl([k \in 1..Len(events) |-> events[k].line]) = str

\* C10: the detail block of a failed supervisor is the single line
\* "! Failed to start process" when it has no handle; with a handle it is
\* the quoted lines of the captured stdout followed by those of the captured
\* stderr, one per newline-separated segment, and an empty capture gives no
\* quoted line.
C10_DetailBlockContent ==
    pc = "exit" =>
        \A i \in 1..Len(commands) :
            IsFailure(Status(i)) =>
                IF ~HasHandle(i)
                THEN DetailBlock(i) = <<FailedToStart>>
                ELSE /\ captured[i][1].read /\ captured[i][2].read
                     /\ \E n \in 0..Len(DetailBlock(i)) :
                           /\ QuotesOf(SubSeq(DetailBlock(i), 1, n),
                                       captured[i][1].str)
                           /\ QuotesOf(SubSeq(DetailBlock(i), n + 1,
                                              Len(DetailBlock(i))),
                                       captured[i][2].str)

\* main returned after a command that failed to spawn and a command that
\* exited with code 1, wrote two lines to stdout and nothing to stderr
C10_Witness ==
    /\ pc = "exit"
    /\ Len(commands) = 2
    /\ Status(1) = Error("spawn failed")
    /\ DetailBlock(1) = <<FailedToStart>>
    /\ Status(2) = Finished(1)
    /\ captured[2][1] = [read |-> TRUE, str |-> <<"x", "\n", "y", "\n">>]
    /\ captured[2][2] = [read |-> TRUE, str |-> <<>>]
    /\ Len(DetailBlock(2)) = 3
    /\ DetailBlock(2)[3].line = <<>>

-----------------------------------------------------------------------------
(* Properties of the pure functions (SpecPure) *)

Applied(fn) == eval.fn = fn /\ eval.applied

\* C11: print_summary picks glyph and color from the status and the tick
\* only: Unstarted gives frame tick mod 4 of the dot wave in gray, Running
\* frame tick mod 10 of the spinner in normal color, Finished(0) "OK" in
\* green, Finished(nonzero) and Error "FAILED" in red; FAILED is shown exactly
\* when is_error holds, and for a terminal status the tick makes no difference.
C11_SummaryGlyph ==
    Applied("print_summary") =>
        LET st == eval.arg.self.status
            t == eval.arg.tick
            shown == <<eval.ret.glyph, eval.ret.color>>
        IN /\ Len(UNSTARTED_DOTS) = 4 /\ Len(RUNNING_DOTS) = 10
           /\ st = Unstarted => shown = <<UNSTARTED_DOTS[(t % 4) + 1], Gray>>
           /\ st = Running => shown = <<RUNNING_DOTS[(t % 10) + 1], Normal>>
           /\ st = Finished(0) => shown = <<"OK", Green>>
           /\ (st.kind = "Finished" /\ st.code # 0) => shown = <<"FAILED", Red>>
           /\ st.kind = "Error" => shown = <<"FAILED", Red>>
           /\ (eval.ret.glyph = "FAILED") <=> is_error(st)
           /\ \A d \in PureDescs :
                 d.status = st =>
                     /\ print_summary(d, t).glyph = eval.ret.glyph
                     /\ print_summary(d, t).color = eval.ret.color
           /\ is_terminal_state(st) =>
                 \A u \in 0..MaxTick : print_summary(eval.arg.self, u) = eval.ret

\* a running supervisor was rendered at tick 13, with frame 3 of the spinner
C11_Witness ==
    /\ Applied("print_summary")
    /\ eval.arg.self.status = Running
    /\ eval.arg.tick = 13
    /\ eval.ret.glyph = RUNNING_DOTS[4]

\* the token sequence cut at its newline tokens: the tokens of each line
RECURSIVE TokenLines(_, _)
TokenLines(ts, cur) ==
    IF ts = <<>>
    THEN <<cur>>
    ELSE IF Head(ts).text = <<"\n">>
         THEN <<cur>> \o TokenLines(Tail(ts), <<>>)
         ELSE TokenLines(Tail(ts), Append(cur, Head(ts)))

\* the color codes the tokens of a line hold, in order
CodesOfTokens(ts) == Concat([k \in 1..Len(ts) |-> ts[k].codes])

\* C12: every captured line is quoted in Normal when it holds no color
\* code, in the color of its code when it holds exactly one, and in Yellow
\* when it holds two or more.
C12_QuoteColor ==
    Applied("print_output") =>
        LET lines == TokenLines(eval.arg, <<>>) IN
        IF eval.arg = <<>>
        THEN eval.ret = <<>>
        ELSE /\ Len(eval.ret) = Len(lines)
             /\ \A k \in 1..Len(lines) :
                   LET codes == CodesOfTokens(lines[k]) IN
                   /\ Len(codes) = 0 => eval.ret[k].color = Normal
                   /\ Len(codes) = 1 => eval.ret[k].color = codes[1]
                   /\ Len(codes) >= 2 => eval.ret[k].color = Yellow

\* a line with a red code followed by a reset code was quoted in Yellow
C12_Witness ==
    /\ Applied("print_output")
    /\ CodesOfTokens(eval.arg) = <<Red, Normal>>
    /\ Len(eval.ret) = 1
    /\ eval.ret[1].color = Yellow

\* the colors find_all gives for the text render gives for them: the named
\* colors, and Other(n) for a code n that is not negative and not the code
\* of a named color
RoundTrips(color) ==
    \/ color \in {Normal, Gray, Green, Red, Yellow}
    \/ /\ color.name = "Other"
       /\ color.code >= 0
       /\ color.code \notin {0, 90, 32, 31, 33}

\* C13, as stated: for Normal, Gray, Green, Red, Yellow and Other(n) with any
\* integer n, find_all of the rendered color is the one color itself.
C13_RoundTripAnyCode ==
    Applied("render") => eval.ret = <<eval.arg>>

\* C13, amended: find_all of the rendered color is the one color itself for
\* Normal, Gray, Green, Red, Yellow and for Other(n) with n >= 0 other than
\* 0, 90, 32, 31, 33; find_all of a text without the escape character is
\* empty.
C13_RoundTrip ==
    /\ (Applied("render") /\ RoundTrips(eval.arg)) => eval.ret = <<eval.arg>>
    /\ (Applied("find_all")
        /\ \A k \in 1..Len(TextOfTokens(eval.arg)) :
              TextOfTokens(eval.arg)[k] # ESC)
       => eval.ret = <<>>

\* Other(7) was rendered and parsed back as Other(7)
C13_Witness ==
    /\ Applied("render")
    /\ eval.arg = Other(7)
    /\ eval.ret = <<Other(7)>>

-----------------------------------------------------------------------------
(* Properties of the frames (SpecFrames) *)

\* the number of cursor-up sequences in what reset() printed
CursorUps(printed) == Cardinality({k \in 1..Len(printed) : printed[k] = CursorUp})

\* C14: after reset() the rows cleared by a line-clear are exactly the rows
\* the previous frame printed on, none more and none less; per tracked row
\* reset() prints a line-clear and then a cursor-up.
C14_ErasesPreviousFrame ==
    last_reset.called =>
        /\ last_reset.erased = last_reset.frame.rows
        /\ last_reset.printed =
               Concat([k \in 1..Len(last_reset.tracked.written_lines_lengths) |->
                          <<EraseLine, CursorUp>>])

\* C15: in main, at every reset() of summarize_all and print_details the
\* cursor-up sequences printed, one per tracked row, are as many as the
\* newline-terminated lines printed since the reset() before, one per
\* command; the cursor of the device is back on the first row of that frame
\* and next_write is 0.
C15_RewindsToFrameTop ==
    last_reset.called =>
        /\ CursorUps(last_reset.printed)
             = Len(last_reset.tracked.written_lines_lengths)
        /\ CursorUps(last_reset.printed) = last_reset.frame.lines
        /\ last_reset.frame.lines =
               IF last_reset.tracked = Terminal_new THEN 0 ELSE Len(commands)
        /\ last_reset.cursor = last_reset.frame.top
        /\ last_reset.next_write = 0

\* print_details has called reset() after a frame of two summaries, and
\* two cursor-up sequences were printed
C15_Witness ==
    /\ pc = "exit"
    /\ last_reset.called
    /\ last_reset.frame.lines = 2
    /\ CursorUps(last_reset.printed) = 2
    /\ last_reset.cursor = 0

-----------------------------------------------------------------------------
(* Properties of summarize_all and check (Spec) *)

\* C16: summarize_all first resets the Terminal; then, when tick is 0, it
\* calls start() on every command in insertion order and no check(),
\* otherwise check() on every command in insertion order and no start(); then
\* it writes one summary and a newline per command, in insertion order and
\* for the tick before the increment; at last it adds one to tick, wrapping.
C16_TickOnceOrder ==
    [][Round =>
          LET n == Len(commands)
              fn == IF tick = 0 THEN "start" ELSE "check"
          IN /\ Len(calls') = 3 * n + 2
             /\ calls'[1] = [fn |-> "reset"]
             /\ \A k \in 1..n :
                   /\ calls'[1 + k] = [fn |-> fn, command |-> k]
                   /\ calls'[n + 2 * k] =
                         [fn |-> "print_summary", command |-> k, tick |-> tick]
                   /\ calls'[n + 2 * k + 1] = [fn |-> "writeln"]
             /\ calls'[3 * n + 2] = [fn |-> "wrapping_add", tick |-> tick]
             /\ \A j \in 1..Len(calls') :
                   calls'[j].fn \in {"start", "check"} => calls'[j].fn = fn
             /\ \A k \in 1..n :
                   [self |-> commands'[k], os |-> os'[k]]
                       \in IF tick = 0 THEN start(commands[k], os[k])
                                       ELSE check(commands[k], os[k])
             /\ out' = <<Reset>>
                        \o Concat([k \in 1..n |->
                                      <<print_summary(commands'[k], tick), Newline>>])
             /\ tick' = (tick + 1) % UsizeModulus]_vars

\* a round with tick 1 has called check() on the first and then on the
\* second of two commands, and tick is 2
C16_Witness ==
    /\ pc = "sleep"
    /\ Len(commands) = 2
    /\ tick = 2
    /\ calls[2] = [fn |-> "check", command |-> 1]
    /\ calls[3] = [fn |-> "check", command |-> 2]
    /\ calls[4] = [fn |-> "print_summary", command |-> 1, tick |-> 1]

\* the status the claim gives for the answer w of a poll
StatusAfterPoll(w) ==
    CASE w.r = "Exited" -> Finished(w.code)
      [] w.r = "ExitedNoCode" -> Error("Error reading status code")
      [] w.r = "StillRunning" -> Running
      [] w.r = "Err" -> Error("poll failed")

\* C17: check() changes nothing when the status is Finished or Error or when
\* there is no handle; otherwise the status becomes Finished(c) for an exit
\* with code c, Error("Error reading status code") for an exit without a
\* code, stays Running for a process still running, and becomes
\* Error(message) for a poll that fails; check() never changes the handle.
C17_CheckOutcomes ==
    [][(Round /\ tick > 0) =>
          \A k \in 1..Len(commands) :
              /\ commands'[k].command_spawn = commands[k].command_spawn
              /\ commands'[k].command_strs = commands[k].command_strs
              /\ os'[k] = os[k]
              /\ IF IsTerminal(Status(k)) \/ ~HasHandle(k)
                 THEN /\ commands'[k] = commands[k]
                      /\ check(commands[k], os[k])
                            = {[self |-> commands[k], os |-> os[k]]}
                 ELSE /\ Status(k) = Running
                      /\ \E w \in TryWaitResults(os[k]) :
                            commands'[k].status = StatusAfterPoll(w)
                      /\ {r.self.status : r \in check(commands[k], os[k])}
                            = {StatusAfterPoll(w) : w \in TryWaitResults(os[k])}]_vars

\* a poll found a process that exited without a code: the status is the
\* error for it and the handle is still there
C17_Witness ==
    /\ pc = "sleep"
    /\ \E k \in 1..Len(commands) :
          /\ Status(k) = Error("Error reading status code")
          /\ HasHandle(k)
          /\ os[k] = "exited"

\* C19: when one of the commands has an empty argument vector, all_done()
\* is false in every reachable state, main never leaves its loop and never
\* calls print_details, whatever the spawned processes have done.
C19_EmptyCommandNeverDone ==
    (\E i \in 1..Len(commands) : commands[i].command_strs = <<>>) =>
        /\ ~all_done(commands)
        /\ pc \in {"read", "loop", "sleep"}
        /\ \A i \in 1..Len(commands) :
              commands[i].command_strs = <<>> => Status(i) = Unstarted

\* next to a blank line, the process of the other command has exited and
\* its status is Finished; main is back at the top of its loop after as
\* many rounds as it takes tick to wrap
C19_Witness ==
    /\ pc = "loop"
    /\ tick = 0
    /\ \E i, j \in 1..Len(commands) :
          /\ commands[i].command_strs = <<>>
          /\ Status(j).kind = "Finished"
          /\ os[j] = "exited"

-----------------------------------------------------------------------------
(* Properties of the Terminal (SpecTerminal) *)

\* C18: reset() leaves the tracked rows as they are, their number and every
\* length; with no tracked row it prints nothing and changes nothing,
\* otherwise it only sets next_write to 0.  So over any sequence of write_str
\* and reset calls the number of tracked rows and every tracked length never
\* decrease, also when a frame has fewer lines than the one before.
C18_ResetKeepsLengths ==
    [][LET old == terminal.written_lines_lengths
           new == terminal'.written_lines_lengths
       IN /\ Len(new) >= Len(old)
          /\ \A k \in 1..Len(old) : new[k] >= old[k]
          /\ eval'.fn = "reset" =>
                /\ new = old
                /\ IF old = <<>>
                   THEN terminal' = terminal /\ eval'.ret.printed = <<>>
                   ELSE terminal' = [terminal EXCEPT !.next_write = 0]]_vars

\* three rows are tracked from an earlier frame, and the frame written after
\* a reset() has one line so far
C18_Witness ==
    /\ pc = "terminal"
    /\ eval.fn = "write_str"
    /\ Len(terminal.written_lines_lengths) = 3
    /\ terminal.next_write = 1

\* C20: over any sequence of write_str and reset calls next_write is at
\* most the number of tracked rows, and write_str never returns an error;
\* next_write advances by one for every segment that ends with a newline
\* and stays for a segment without one, and the length of each segment,
\* its newline not counted, is added to the tracked length of its row.
C20_WriteCursor ==
    /\ [](terminal.next_write <= Len(terminal.written_lines_lengths))
    /\ [][eval'.fn = "write_str" =>
             LET pieces == split_newline(eval'.arg)
                 old == terminal.written_lines_lengths
                 new == terminal'.written_lines_lengths
                 recorded == {i \in 1..Len(pieces) :
                                 ~(i = Len(pieces) /\ pieces[i] = <<>>)}
                 row(i) == terminal.next_write + i
                 before(j) == IF j <= Len(old) THEN old[j] ELSE 0
             IN /\ eval'.ret.ok
                /\ terminal'.next_write = terminal.next_write + Len(pieces) - 1
                /\ \A i \in recorded : row(i) <= Len(new)
                /\ Len(new) > Len(old) => \E i \in recorded : row(i) = Len(new)
                /\ Len(new) >= Len(old)
                /\ \A j \in 1..Len(new) :
                      new[j] = before(j)
                               + (IF \E i \in recorded : row(i) = j
                                  THEN Len(pieces[j - terminal.next_write])
                                  ELSE 0)]_vars

\* a line and the start of the next were written to a new Terminal: two
\* rows of length 1, next_write on the second
C20_Witness ==
    /\ pc = "terminal"
    /\ eval.fn = "write_str"
    /\ eval.arg = <<"a", "\n", "b">>
    /\ eval.ret.ok
    /\ terminal = [next_write |-> 1, written_lines_lengths |-> <<1, 1>>]

====
